---- MODULE Spec2Model ----
(***************************************************************************)
(* A model of the chromium crate: the six repr(C) record types            *)
(* (SharedSlice, UniqueSlice, SharedStr, UniqueStr, StableVec,             *)
(* StableString), their conversions from and to the native Rust forms,     *)
(* and a client that uses them under Rust's move and borrow rules.         *)
(*                                                                         *)
(* Memory is a map from byte addresses to element values.  A native slice  *)
(* or str is the fat pointer [ptr, len]; a native Vec or String is         *)
(* [ptr, len, cap].  Every record value is the struct of its fields.       *)
(***************************************************************************)
EXTENDS Integers, Sequences, FiniteSets, TLC

\* ------------------------------------------------------------------ bounds
\* The native references, native buffers and records a client run creates.
MaxObjs == 4
\* The references it borrows from its own storage.
MaxBorrows == 2
\* The native buffers it allocates.
MaxBufs == 1
\* The stores it makes.
MaxWrites == 1
\* The length of its array; its str is one byte longer.
NElem == 2
\* The layers of the type expressions a client writes.
MaxTyLen == 3
\* The length of each of the two arrays whose records are compared.
EqElems == 2

\* ------------------------------------------------------- element types
\* The sequence records are instantiated at T = i32, as the tests do.
SizeOfT == 4
AlignOfT == 4
\* str data is u8.
SizeOfU8 == 1
AlignOfU8 == 1

Kinds == {"SharedSlice", "UniqueSlice", "SharedStr", "UniqueStr",
          "StableVec", "StableString"}

IsText(kind) == kind \in {"SharedStr", "UniqueStr", "StableString"}
IsOwning(kind) == kind \in {"StableVec", "StableString"}
\* The kinds that implement DerefMut.
HasDerefMut(kind) == kind \in {"UniqueSlice", "UniqueStr", "StableVec", "StableString"}
\* The kinds whose From conversion takes a shared native reference.
IsShared(kind) == kind \in {"SharedSlice", "SharedStr"}

\* The kinds with `impl Clone`.
HasClone(kind) == kind \in {"SharedSlice", "SharedStr", "UniqueStr"}

\* A mutated reading of the Copy impls: UniqueSlice duplicable as well.
IsCopy_UniqueSliceToo(kind) == kind \in {"SharedSlice", "SharedStr", "UniqueStr", "UniqueSlice"}
\* A mutated reading of the Copy impls: the owning records duplicable.
IsCopy_OwningToo(kind) ==
  kind \in {"SharedSlice", "SharedStr", "UniqueStr", "StableVec", "StableString"}
\* The kinds with `impl Copy`: a by-value use leaves the original usable.
IsCopy(kind) == kind \in {"SharedSlice", "SharedStr", "UniqueStr"}

SizeOf(text) == IF text THEN SizeOfU8 ELSE SizeOfT
AlignOf(text) == IF text THEN AlignOfU8 ELSE AlignOfT

\* ------------------------------------------------------------ memory map
\* The client's borrowed storage: an [i32; NElem] array and a str of
\* NElem + 1 bytes; the heap follows, one arena per native buffer.
SliceBase == 2 * AlignOfT
TextLen == NElem + 1
TextBase == SliceBase + NElem * SizeOfT
MaxCap == NElem + 2
ArenaSize == MaxCap * SizeOfT
HeapBase == 8 * SizeOfT * (NElem + 1)
ArenaBase(k) == HeapBase + (k - 1) * ArenaSize

SliceCells == {SliceBase + i * SizeOfT : i \in 0..(NElem - 1)}
TextCells == {TextBase + i : i \in 0..(TextLen - 1)}
\* The heap cells that hold an element of a Vec<T> or a byte of a String.
HeapCells ==
  {ArenaBase(k) + j * SizeOfT : k \in 1..MaxBufs, j \in 0..(MaxCap - 1)}
    \cup {ArenaBase(k) + j : k \in 1..MaxBufs, j \in 0..(MaxCap - 1)}
Cells == SliceCells \cup TextCells \cup HeapCells

\* The bytes of "a\u{e9}" repeated: 0x61, 0xC3, 0xA9.
SeedByte(i) == CASE i % 3 = 1 -> 97
                 [] i % 3 = 2 -> 195
                 [] OTHER -> 169
\* The elements 1, 2, 3, ... of the tests' arrays and vecs.
SeedElem(i) == i
\* The values the client stores through a mutable slice.
WriteVals == {9}

\* ---------------------------------------------------------------- UTF-8
\* Validity over the byte alphabet of the model: ASCII, the two-byte lead
\* 0xC3 and the continuation byte 0xA9.
IsAscii(b) == b >= 0 /\ b < 128
IsLead2(b) == b >= 194 /\ b < 224
IsCont(b) == b >= 128 /\ b < 192

RECURSIVE IsUtf8From(_, _)
IsUtf8From(bytes, i) ==
  IF i > Len(bytes) THEN TRUE
  ELSE IF IsAscii(bytes[i]) THEN IsUtf8From(bytes, i + 1)
  ELSE IF IsLead2(bytes[i]) /\ i + 1 <= Len(bytes) /\ IsCont(bytes[i + 1])
       THEN IsUtf8From(bytes, i + 2)
  ELSE FALSE
IsUtf8(bytes) == IsUtf8From(bytes, 1)

\* A mutated to_ascii_uppercase: bytes above 'z' are shifted as well.
to_ascii_uppercase_high(b) == IF b >= 97 THEN b - 32 ELSE b
\* u8::to_ascii_uppercase, applied by str::make_ascii_uppercase.
to_ascii_uppercase(b) == IF b >= 97 /\ b <= 122 THEN b - 32 ELSE b

\* ------------------------------------------------------ native primitives
\* A mutated dangling(): the address 1 whatever the type.
dangling_one(align) == 1
\* core::ptr::NonNull::<T>::dangling(): the alignment of T as an address.
dangling(align) == align
\* core::slice::from_raw_parts / from_raw_parts_mut: the fat pointer.
from_raw_parts(ptr, len) == [ptr |-> ptr, len |-> len]
from_raw_parts_mut(ptr, len) == [ptr |-> ptr, len |-> len]
\* Vec::from_raw_parts / String::from_raw_parts.
Vec_from_raw_parts(ptr, len, cap) == [ptr |-> ptr, len |-> len, cap |-> cap]
\* Vec::default() / String::default(): no allocation, a dangling pointer.
Vec_default(text) == [ptr |-> dangling(AlignOf(text)), len |-> 0, cap |-> 0]

\* The addresses a native slice covers, one per element.
AddrsOf(s, size) == {s.ptr + (i - 1) * size : i \in 1..s.len}
\* The elements a native slice yields when read.
Elems(m, s, size) == [i \in 1..s.len |-> m[s.ptr + (i - 1) * size]]
\* Whether two slices cover a common byte.
Overlap(s1, size1, s2, size2) ==
  /\ s1.len > 0
  /\ s2.len > 0
  /\ s1.ptr < s2.ptr + s2.len * size2
  /\ s2.ptr < s1.ptr + s1.len * size1

\* ------------------------------------------------- src/shared_slice.rs
SharedSlice_from(sli) == [ptr |-> sli.ptr, len |-> sli.len]
\* A mutated From<SharedSlice> for &[T]: the last element is lost.
SharedSlice_into_short(shared) == from_raw_parts(shared.ptr, shared.len - 1)
SharedSlice_into(shared) == from_raw_parts(shared.ptr, shared.len)
\* A mutated Deref: the last element is out of reach.
SharedSlice_deref_short(self) == from_raw_parts(self.ptr, self.len - 1)
SharedSlice_deref(self) == from_raw_parts(self.ptr, self.len)
\* A mutated clone: a fresh empty record instead of a copy of the fields.
SharedSlice_clone_reset(self) == [ptr |-> dangling(AlignOfT), len |-> 0]
SharedSlice_clone(self) == self
\* A mutated Default: a null pointer in place of the dangling one.
SharedSlice_default_null == [ptr |-> 0, len |-> 0]
SharedSlice_default == [ptr |-> dangling(AlignOfT), len |-> 0]

\* ------------------------------------------------- src/unique_slice.rs
UniqueSlice_from(sli) == [ptr |-> sli.ptr, len |-> sli.len]
\* A mutated From<UniqueSlice> for &mut [T]: the length checked against the
\* array and cut down to it.
UniqueSlice_into_clamped(unique) ==
  from_raw_parts_mut(unique.ptr, IF unique.len > NElem THEN NElem ELSE unique.len)
UniqueSlice_into(unique) == from_raw_parts_mut(unique.ptr, unique.len)
UniqueSlice_deref(self) == from_raw_parts(self.ptr, self.len)
\* A mutated DerefMut: the slice starts one element late.
UniqueSlice_deref_mut_shifted(self) == from_raw_parts_mut(self.ptr + SizeOfT, self.len - 1)
UniqueSlice_deref_mut(self) == from_raw_parts_mut(self.ptr, self.len)
UniqueSlice_default == [ptr |-> dangling(AlignOfT), len |-> 0]

\* --------------------------------------------------- src/shared_str.rs
SharedStr_from(s) == [ptr |-> s.ptr, len |-> s.len]
SharedStr_into(c_shared) == from_raw_parts(c_shared.ptr, c_shared.len)
SharedStr_deref(self) == from_raw_parts(self.ptr, self.len)
SharedStr_clone(self) == self
SharedStr_default == [ptr |-> dangling(AlignOfU8), len |-> 0]

\* --------------------------------------------------- src/unique_str.rs
UniqueStr_from(s) == [ptr |-> s.ptr, len |-> s.len]
UniqueStr_into(unique) == from_raw_parts_mut(unique.ptr, unique.len)
UniqueStr_deref(self) == from_raw_parts(self.ptr, self.len)
UniqueStr_deref_mut(self) == from_raw_parts_mut(self.ptr, self.len)
UniqueStr_clone(self) == self
UniqueStr_default == [ptr |-> dangling(AlignOfU8), len |-> 0]

\* --------------------------------------------------- src/stable_vec.rs
\* A mutated From<Vec<T>>: the vec is left to its destructor.
ManuallyDrop_new_noop(st) == st
\* core::mem::ManuallyDrop::new(vec): the destructor of vec never runs.
ManuallyDrop_new(st) == "forgotten"
\* A mutated From: the length and the capacity read into each other's field.
StableVec_from_lencap(vec) == [ptr |-> vec.ptr, len |-> vec.cap, cap |-> vec.len]
StableVec_from(vec) == [ptr |-> vec.ptr, len |-> vec.len, cap |-> vec.cap]
\* A mutated From<StableVec<T>> for Vec<T>: length and capacity swapped.
StableVec_into_swapped(sv) == Vec_from_raw_parts(sv.ptr, sv.cap, sv.len)
StableVec_into(sv) == Vec_from_raw_parts(sv.ptr, sv.len, sv.cap)
StableVec_deref(self) == from_raw_parts(self.ptr, self.len)
\* A mutated DerefMut: the slice runs to the capacity, not the length.
StableVec_deref_mut_cap(self) == from_raw_parts_mut(self.ptr, self.cap)
StableVec_deref_mut(self) == from_raw_parts_mut(self.ptr, self.len)
StableVec_default == StableVec_from(Vec_default(FALSE))

\* ------------------------------------------------ src/stable_string.rs
\* A mutated From<String>: the capacity taken for the length.
StableString_from_cap(s) == [ptr |-> s.ptr, len |-> s.cap, cap |-> s.cap]
StableString_from(s) == [ptr |-> s.ptr, len |-> s.len, cap |-> s.cap]
\* A mutated From<StableString> for String: the capacity cut to the length.
StableString_into_exact(sv) == Vec_from_raw_parts(sv.ptr, sv.len, sv.len)
StableString_into(sv) == Vec_from_raw_parts(sv.ptr, sv.len, sv.cap)
StableString_deref(self) == from_raw_parts(self.ptr, self.len)
StableString_deref_mut(self) == from_raw_parts_mut(self.ptr, self.len)
StableString_default == StableString_from(Vec_default(TRUE))

\* ------------------------------------------------- dispatch on the kind
\* From<native> for the record.
RecFrom(kind, n) ==
  CASE kind = "SharedSlice" -> SharedSlice_from(n)
    [] kind = "UniqueSlice" -> UniqueSlice_from(n)
    [] kind = "SharedStr" -> SharedStr_from(n)
    [] kind = "UniqueStr" -> UniqueStr_from(n)
    [] kind = "StableVec" -> StableVec_from(n)
    [] kind = "StableString" -> StableString_from(n)
\* From<record> for the native form.
RecInto(kind, r) ==
  CASE kind = "SharedSlice" -> SharedSlice_into(r)
    [] kind = "UniqueSlice" -> UniqueSlice_into(r)
    [] kind = "SharedStr" -> SharedStr_into(r)
    [] kind = "UniqueStr" -> UniqueStr_into(r)
    [] kind = "StableVec" -> StableVec_into(r)
    [] kind = "StableString" -> StableString_into(r)
\* Deref::deref.
RecDeref(kind, r) ==
  CASE kind = "SharedSlice" -> SharedSlice_deref(r)
    [] kind = "UniqueSlice" -> UniqueSlice_deref(r)
    [] kind = "SharedStr" -> SharedStr_deref(r)
    [] kind = "UniqueStr" -> UniqueStr_deref(r)
    [] kind = "StableVec" -> StableVec_deref(r)
    [] kind = "StableString" -> StableString_deref(r)
\* DerefMut::deref_mut, for the kinds that have it.
RecDerefMut(kind, r) ==
  CASE kind = "UniqueSlice" -> UniqueSlice_deref_mut(r)
    [] kind = "UniqueStr" -> UniqueStr_deref_mut(r)
    [] kind = "StableVec" -> StableVec_deref_mut(r)
    [] kind = "StableString" -> StableString_deref_mut(r)
\* Clone::clone, for the kinds that have it.
RecClone(kind, r) ==
  CASE kind = "SharedSlice" -> SharedSlice_clone(r)
    [] kind = "SharedStr" -> SharedStr_clone(r)
    [] kind = "UniqueStr" -> UniqueStr_clone(r)
\* Default::default.
RecDefault(kind) ==
  CASE kind = "SharedSlice" -> SharedSlice_default
    [] kind = "UniqueSlice" -> UniqueSlice_default
    [] kind = "SharedStr" -> SharedStr_default
    [] kind = "UniqueStr" -> UniqueStr_default
    [] kind = "StableVec" -> StableVec_default
    [] kind = "StableString" -> StableString_default

\* ------------------------------------------------------------- allocator
\* The global allocator's dealloc: the block at ptr is released once more.
Dealloc(h, ptr, who) ==
  [k \in DOMAIN h |->
     IF h[k].base = ptr
     THEN [h[k] EXCEPT !.st = "freed", !.frees = @ + 1, !.by = @ \cup {who}]
     ELSE h[k]]
\* Drop for Vec / String: a buffer with capacity releases its block.
VecDrop(h, v, who) == IF v.cap > 0 THEN Dealloc(h, v.ptr, who) ELSE h
\* The end of a function body: a local whose destructor may still run is dropped.
ScopeExit(h, st, v, who) == IF st = "live" THEN VecDrop(h, v, who) ELSE h
\* A mutated discard: a Drop impl that releases the block.
RecDrop_frees(h, r) == VecDrop(h, r.val, 0)
\* StableVec and StableString have no Drop impl: discarding one frees nothing.
RecDrop(h, r) == h

\* ------------------------------------------------- src/lib.rs: the types
\* A type expression is the chain of its constructors, outermost first,
\* ending in a base type: Option<&u8> is <<Option, Ref, u8>>.  A layer is
\* [con, n], n being the length of an array layer and 0 elsewhere.
Layer(con, n) == [con |-> con, n |-> n]
BaseTy(con) == <<Layer(con, 0)>>
BaseOf(t) == t[Len(t)].con

UnsignedImpls == {"u8", "u16", "u32", "u64", "usize"}
SignedImpls == {"i8", "i16", "i32", "i64", "isize"}
FloatImpls == {"f32", "f64"}
\* A mutated list of base impls: char left out.
BaseImpls_NoChar == UnsignedImpls \cup SignedImpls \cup FloatImpls \cup {"bool", "unit"}
\* unsafe impl StableLayout for u8 {} ... for () {}
BaseImpls == UnsignedImpls \cup SignedImpls \cup FloatImpls \cup {"bool", "char", "unit"}
\* The primitive integers wider than 64 bits: no impl names them.
WideInts == {"u128", "i128"}
\* unsafe impl StableLayout for NonZeroU8 {} ..., and for Option<NonZeroU8> {} ...
NonZeroImpls == {"NonZeroU8", "NonZeroU16", "NonZeroU32", "NonZeroU64", "NonZeroUsize",
                 "NonZeroI8", "NonZeroI16", "NonZeroI32", "NonZeroI64", "NonZeroIsize"}
OptionNonZeroImpls == NonZeroImpls
TextRecords == {"SharedStr", "UniqueStr", "StableString"}
SeqRecords == {"SharedSlice", "UniqueSlice", "StableVec"}
\* The dynamically sized types: str as a base, [T] as a layer.
UnsizedCons == {"str", "Slice"}
\* The primitive types of the language a client can name.
Primitives == UnsignedImpls \cup SignedImpls \cup WideInts \cup FloatImpls
                \cup {"bool", "char", "unit"}
BaseCons == Primitives \cup NonZeroImpls \cup TextRecords \cup {"str"}

Wrappers == {"PhantomData", "Wrapping", "ManuallyDrop", "UnsafeCell", "Cell"}
Pointers == {"Ref", "RefMut", "ConstPtr", "MutPtr", "NonNull"}
\* A mutated list of Option impls: Option<*const T> among them.
OptionPointers_ConstPtrToo == {"Ref", "RefMut", "NonNull", "ConstPtr"}
\* The pointer types whose Option form has an impl: &T, &mut T, NonNull<T>.
OptionPointers == {"Ref", "RefMut", "NonNull"}
\* A mutated list of array lengths: 33 among them.
ArrayImplLens_With33 == 0..33 \cup {48, 64, 96, 128, 256, 512, 1024, 2048, 4096}
\* impl_unsafe_marker_for_array!(StableLayout, 0, 1, ..., 32, 48, ..., 4096)
ArrayImplLens == 0..32 \cup {48, 64, 96, 128, 256, 512, 1024, 2048, 4096}
\* The array lengths a client writes: one empty, one listed, one not listed.
ArrayLens == {0, 3, 33}
\* The unary layers a client wraps a type in.
UnaryCons == Wrappers \cup Pointers \cup SeqRecords \cup {"Option", "Box", "Slice"}
\* The layers whose parameter has the implicit Sized bound.
SizedParamCons == SeqRecords \cup {"Wrapping", "Option", "Array", "Slice"}

IsSized(t) == Head(t).con \notin UnsizedCons

\* ------------------------------------------- src/lib.rs: the build
\* The cargo features the sources test with cfg(feature = ...).
Builds == [alloc : BOOLEAN, unsafe_alloc : BOOLEAN]
\* `mod stable_vec;` is compiled under feature "alloc"; the file removes
\* itself, module and all, unless feature "unsafe_alloc" is on.
ModPresent(b) == b.alloc /\ b.unsafe_alloc
\* `pub use stable_vec::*;` under feature "alloc" needs the module to exist.
CrateBuilds(b) == b.alloc => ModPresent(b)
\* What a build of the crate offers beside the trait and its core impls.
Exports(b) ==
  IF ~CrateBuilds(b) THEN {}
  ELSE {"SharedSlice", "UniqueSlice", "SharedStr", "UniqueStr"}
         \cup (IF ModPresent(b) THEN {"StableVec", "StableString"} ELSE {})
         \cup (IF b.alloc THEN {"Box", "OptionBox"} ELSE {})
Available(item, b) == item \in Exports(b)

\* ------------------------------------- src/lib.rs: trait StableLayout
\* impl<T> StableLayout for W<T> where T: StableLayout, W a wrapper.  A
\* mutated reading first: PhantomData stable for being zero-sized.
WrapperImpl_Zst(con, bound) == con = "PhantomData" \/ bound
WrapperImpl(con, bound) == bound

\* unsafe impl StableLayout for SharedStr<'a> {}, and
\* unsafe impl<T: StableLayout> StableLayout for SharedSlice<'a, T> {}, and
\* the four like them.  A mutated reading first: no impl for a record.
RecordImpl_None(kind, bound) == FALSE
RecordImpl(kind, bound) == bound

\* Whether `t: StableLayout` holds in build b: the impl that names t's
\* outermost layer, with its where clause resolved on the layers below.
RECURSIVE StableLayout(_, _)
StableLayout(t, b) ==
  LET con == Head(t).con
      r == Tail(t)
  IN IF Len(t) = 1
     THEN \/ con \in BaseImpls
          \/ con \in NonZeroImpls
          \/ con \in {"SharedStr", "UniqueStr"} /\ RecordImpl(con, TRUE)
          \/ con = "StableString" /\ RecordImpl(con, Available("StableString", b))
     ELSE IF con \in Wrappers
     THEN WrapperImpl(con, IsSized(r) /\ StableLayout(r, b))
     ELSE IF con \in Pointers
     THEN IsSized(r) /\ StableLayout(r, b)
     ELSE IF con = "Box"
     THEN Available("Box", b) /\ IsSized(r) /\ StableLayout(r, b)
     ELSE IF con = "Array"
     THEN Head(t).n \in ArrayImplLens /\ IsSized(r) /\ StableLayout(r, b)
     ELSE IF con \in {"SharedSlice", "UniqueSlice"}
     THEN RecordImpl(con, IsSized(r) /\ StableLayout(r, b))
     ELSE IF con = "StableVec"
     THEN RecordImpl(con, Available("StableVec", b) /\ IsSized(r) /\ StableLayout(r, b))
     ELSE IF con = "Option"
     THEN \/ Len(r) = 1 /\ Head(r).con \in OptionNonZeroImpls
          \/ /\ Len(r) > 1
             /\ Head(r).con \in OptionPointers
             /\ IsSized(Tail(r)) /\ StableLayout(Tail(r), b)
          \/ /\ Len(r) > 1
             /\ Head(r).con = "Box"
             /\ Available("OptionBox", b)
             /\ IsSized(Tail(r)) /\ StableLayout(Tail(r), b)
     ELSE FALSE

\* The where clause of a record type: `T: StableLayout` (and the implicit
\* `T: Sized`) on the three sequence records, none on the text records.
\* A mutated reading first: no bound on T.
WhereClause_None(kind, t, b) == TRUE
WhereClause(kind, t, b) ==
  kind \in SeqRecords => IsSized(t) /\ StableLayout(t, b)
\* Whether the compiler accepts the use of `kind<t>` (of `kind` for a text
\* record) in a client of build b.
Accepts(kind, t, b) ==
  CrateBuilds(b) /\ Available(kind, b) /\ WhereClause(kind, t, b)

\* core::mem::size_of::<T>() = 0, for the types with an impl.
RECURSIVE IsZst(_)
IsZst(t) ==
  LET con == Head(t).con IN
    IF con = "unit" \/ con = "PhantomData" THEN TRUE
    ELSE IF con = "Array" THEN Head(t).n = 0 \/ IsZst(Tail(t))
    ELSE IF con \in Wrappers THEN IsZst(Tail(t))
    ELSE FALSE
\* core::mem::align_of::<T>(), for the types with an impl, on a target
\* with 64-bit pointers.
RECURSIVE AlignOfTy(_)
AlignOfTy(t) ==
  LET con == Head(t).con IN
    IF con \in {"u8", "i8", "bool", "unit", "NonZeroU8", "NonZeroI8", "PhantomData"} THEN 1
    ELSE IF con \in {"u16", "i16", "NonZeroU16", "NonZeroI16"} THEN 2
    ELSE IF con \in {"u32", "i32", "f32", "char", "NonZeroU32", "NonZeroI32"} THEN 4
    ELSE IF con \in (Wrappers \cup {"Array", "Option"}) THEN AlignOfTy(Tail(t))
    ELSE 8

\* usize::MAX, held to 16 bits: no property depends on its width.
UsizeMax == 65535
\* A mutated Vec::new(): capacity 0 whatever the element type.
Vec_new_nocap(zst, align) == [ptr |-> dangling(align), len |-> 0, cap |-> 0]
\* Vec::<T>::new() / Vec::<T>::default(): no allocation, a dangling pointer,
\* and for a zero-sized T the capacity usize::MAX.
Vec_new(zst, align) ==
  [ptr |-> dangling(align), len |-> 0, cap |-> IF zst THEN UsizeMax ELSE 0]
\* StableVec::<T>::default() at element type t.
StableVec_default_at(t) == StableVec_from(Vec_new(IsZst(t), AlignOfTy(t)))
\* SharedSlice::<T>::default() / UniqueSlice::<T>::default() at element type t.
SharedSlice_default_at(t) == [ptr |-> dangling(AlignOfTy(t)), len |-> 0]
UniqueSlice_default_at(t) == [ptr |-> dangling(AlignOfTy(t)), len |-> 0]

\* ------------------------------------------ the structs: #[repr(C)]
\* The pointer widths, in bytes, of the targets a build is made for.
PtrWidths == {2, 4, 8}
\* A field of a struct: its name, size and alignment.
Field(name, size, align) == [name |-> name, size |-> size, align |-> align]
\* A mutated marker: PhantomData taking up a word.
PhantomData_size_word(w) == w
\* core::mem::size_of::<PhantomData<X>>(): a marker holds nothing.
PhantomData_size(w) == 0
\* The fields the struct of a record kind declares, in source order, on a
\* target whose pointers are w bytes: a thin pointer, usize, PhantomData.
StructFields(kind, w) ==
  IF kind \in {"StableVec", "StableString"}
  THEN <<Field("ptr", w, w), Field("len", w, w), Field("cap", w, w)>>
  ELSE <<Field("ptr", w, w), Field("len", w, w),
         Field("life", PhantomData_size(w), 1)>>
\* The least multiple of align that is no less than n.
RoundUp(n, align) == ((n + align - 1) \div align) * align
\* #[repr(C)]: each field in declaration order at the next offset that
\* suits its alignment.  The offset of field i of fs:
RECURSIVE OffsetOf(_, _)
OffsetOf(fs, i) ==
  IF i = 1 THEN 0
  ELSE RoundUp(OffsetOf(fs, i - 1) + fs[i - 1].size, fs[i].align)
RECURSIVE MaxAlign(_, _)
MaxAlign(fs, i) ==
  IF i = 0 THEN 1
  ELSE IF fs[i].align > MaxAlign(fs, i - 1) THEN fs[i].align ELSE MaxAlign(fs, i - 1)
\* The layout of a #[repr(C)] struct: its fields with their offsets, its
\* alignment (the largest of its fields') and its size (the end of the
\* last field rounded up to the alignment).
repr_C(fs) ==
  [fields |-> [i \in 1..Len(fs) |->
                 [name |-> fs[i].name, size |-> fs[i].size, at |-> OffsetOf(fs, i)]],
   align |-> MaxAlign(fs, Len(fs)),
   size |-> RoundUp(OffsetOf(fs, Len(fs)) + fs[Len(fs)].size, MaxAlign(fs, Len(fs)))]

\* ----------------------------------------------------------------- state
VARIABLES
  mem,     \* address -> element value
  heap,    \* the allocator's blocks: [base, st, frees, by]
  views,   \* native references: &[T], &mut [T], &str, &mut str
  bufs,    \* native growable buffers: Vec<T>, String
  recs,    \* the records of the six kinds
  lastW,   \* the last write made, with the contents it must leave
  epoch,   \* the number of writes made so far
  fam,     \* the family of records the client program works with
  build,   \* the features the crate is built with
  ty,      \* the type expression the client has written
  res,     \* the outcome of the last static operation
  eq       \* a comparison of two records: memory, operands, outcome

\* The run-time state and the static state.
mvars == <<mem, heap, views, bufs, recs, lastW, epoch, fam>>
tvars == <<build, ty, res>>
vars == <<mem, heap, views, bufs, recs, lastW, epoch, fam, build, ty, res, eq>>

NoVal == [ptr |-> 0, len |-> 0, cap |-> 0]
NoRes == [op |-> "none", kind |-> "", ok |-> FALSE, val |-> NoVal, exports |-> {}]
\* The build the run-time model runs in: every feature on.
FullBuild == [alloc |-> TRUE, unsafe_alloc |-> TRUE]
\* No comparison under way.
NoEq == [text |-> FALSE, m |-> <<>>, kind |-> "", lhs |-> NoVal, rhs |-> NoVal,
         op |-> "none", ok |-> FALSE, same |-> FALSE]

\* A client run exercises one family: slices or strs, borrowed or owned,
\* with its records built from native values or by Default.
Families == [text : BOOLEAN, own : BOOLEAN, dflt : BOOLEAN]
InFamily(kind) == IsText(kind) = fam.text /\ IsOwning(kind) = fam.own

NoWrite == [lin |-> <<"none", 0>>, by |-> <<"none", 0>>, exp |-> <<>>]

\* The native value of a view or buffer entry.
NativeOf(e) == [ptr |-> e.ptr, len |-> e.len]
BufOf(e) == [ptr |-> e.ptr, len |-> e.len, cap |-> e.cap]
\* The memory a record covers, as its Deref sees it.
RecSlice(r) == RecDeref(r.kind, r.val)
RecSize(r) == SizeOf(IsText(r.kind))
RecElems(m, r) == Elems(m, RecSlice(r), RecSize(r))

\* The objects created so far.
Objs == Len(views) + Len(bufs) + Len(recs)

\* The references borrowed from storage and the buffers allocated so far.
Borrows == Cardinality({v \in DOMAIN views : views[v].from = 0})
Allocs == Cardinality({b \in DOMAIN bufs : bufs[b].from = 0})

ViewKinds == {k \in Kinds : ~IsOwning(k)}
LiveViews == {v \in DOMAIN views : views[v].st = "live"}
LiveRecs == {r \in DOMAIN recs : recs[r].st = "Live"}
LiveBufs == {b \in DOMAIN bufs : bufs[b].st = "live"}

\* The borrow checker: the live borrows that cover part of a slice.  A
\* record carries the lifetime of the reference it was built from.
\* A mutated borrow: a record without its lifetime marker holds nothing.
SharedHolds_ViewsOnly(s, size) ==
  \E v \in LiveViews :
    ~views[v].mut /\ Overlap(s, size, NativeOf(views[v]), SizeOf(views[v].text))
SharedHolds(s, size) ==
  \/ \E v \in LiveViews :
       ~views[v].mut /\ Overlap(s, size, NativeOf(views[v]), SizeOf(views[v].text))
  \/ \E r \in LiveRecs :
       IsShared(recs[r].kind) /\ Overlap(s, size, RecSlice(recs[r]), RecSize(recs[r]))
UniqueHolds(s, size) ==
  \/ \E v \in LiveViews :
       views[v].mut /\ Overlap(s, size, NativeOf(views[v]), SizeOf(views[v].text))
  \/ \E r \in LiveRecs :
       /\ recs[r].kind \in {"UniqueSlice", "UniqueStr"}
       /\ Overlap(s, size, RecSlice(recs[r]), RecSize(recs[r]))

\* The sub-slices of the client's array and the sub-strs of its str that
\* the client borrows: the empty one, the whole, and the tail past the
\* first element.
SliceChoices ==
  {[ptr |-> SliceBase, len |-> 0],
   [ptr |-> SliceBase, len |-> NElem],
   [ptr |-> SliceBase + SizeOfT, len |-> NElem - 1]}
TextChoices ==
  {[ptr |-> TextBase, len |-> 0],
   [ptr |-> TextBase, len |-> TextLen],
   [ptr |-> TextBase + 1, len |-> TextLen - 1]}
InArray(s) == s.ptr + s.len * SizeOfT <= SliceBase + NElem * SizeOfT
\* A str starts and ends on a char boundary of the str it is cut from.
InStr(m, s) ==
  /\ s.ptr + s.len <= TextBase + TextLen
  /\ IsUtf8(Elems(m, [ptr |-> TextBase, len |-> s.ptr - TextBase], SizeOfU8))
  /\ IsUtf8(Elems(m, s, SizeOfU8))

Init ==
  /\ mem = [a \in Cells |->
              IF a \in SliceCells THEN SeedElem((a - SliceBase) \div SizeOfT + 1)
              ELSE IF a \in TextCells THEN SeedByte(a - TextBase + 1)
              ELSE 0]
  /\ heap = <<>>
  /\ views = <<>>
  /\ bufs = <<>>
  /\ recs = <<>>
  /\ lastW = NoWrite
  /\ epoch = 0
  /\ fam \in Families
  /\ build = FullBuild
  /\ ty = <<>>
  /\ res = NoRes
  /\ eq = NoEq

\* ------------------------------------------------------- client: borrows
\* let v: &[T] = &array[a..b];  let v: &str = &text[a..b];
BorrowShared ==
  \E text \in {fam.text} :
    \E s \in (IF text THEN TextChoices ELSE SliceChoices) :
      /\ ~fam.own
      /\ ~fam.dflt
      /\ Objs < MaxObjs
      /\ Borrows < MaxBorrows
      /\ IF text THEN InStr(mem, s) ELSE InArray(s)
      /\ ~UniqueHolds(s, SizeOf(text))
      /\ views' = Append(views,
           [mut |-> FALSE, text |-> text, ptr |-> s.ptr, len |-> s.len,
            st |-> "live", lin |-> <<"view", Len(views) + 1>>, from |-> 0])
      /\ UNCHANGED <<mem, heap, bufs, recs, lastW, epoch, fam, build, ty, res, eq>>

\* let v: &mut [T] = &mut array[a..b];  let v: &mut str = &mut text[a..b];
BorrowMut ==
  \E text \in {fam.text} :
    \E s \in (IF text THEN TextChoices ELSE SliceChoices) :
      /\ ~fam.own
      /\ ~fam.dflt
      /\ Objs < MaxObjs
      /\ Borrows < MaxBorrows
      /\ IF text THEN InStr(mem, s) ELSE InArray(s)
      /\ ~UniqueHolds(s, SizeOf(text))
      /\ ~SharedHolds(s, SizeOf(text))
      /\ views' = Append(views,
           [mut |-> TRUE, text |-> text, ptr |-> s.ptr, len |-> s.len,
            st |-> "live", lin |-> <<"view", Len(views) + 1>>, from |-> 0])
      /\ UNCHANGED <<mem, heap, bufs, recs, lastW, epoch, fam, build, ty, res, eq>>

\* A native reference goes out of scope.
DropView ==
  \E v \in LiveViews :
    /\ views' = [views EXCEPT ![v].st = "dead"]
    /\ UNCHANGED <<mem, heap, bufs, recs, lastW, epoch, fam, build, ty, res, eq>>

\* ------------------------------------------------ records of the views
\* The record entry built by an operation of the crate.  Beside the struct
\* (val) it keeps where the record came from: the native value it was built
\* from (via), the elements that value had (snap) and the number of stores
\* made before that (born).
MkRec(kind, val, lin, via, origin, born, snap) ==
  [kind |-> kind, st |-> "Live", val |-> val, lin |-> lin, via |-> via,
   origin |-> origin, born |-> born, how |-> "live", snap |-> snap]

\* SharedSlice::from(v), UniqueSlice::from(v), SharedStr::from(v),
\* UniqueStr::from(v).  A &mut reference is moved into the call.
FromView ==
  \E v \in LiveViews : \E kind \in ViewKinds :
    /\ Objs < MaxObjs
    /\ IsText(kind) = views[v].text
    /\ IsShared(kind) = ~views[v].mut
    /\ recs' = Append(recs,
         MkRec(kind, RecFrom(kind, NativeOf(views[v])), views[v].lin, v, "from",
               epoch, Elems(mem, NativeOf(views[v]), SizeOf(views[v].text))))
    /\ views' = [views EXCEPT ![v].st = IF views[v].mut THEN "moved" ELSE "live"]
    /\ UNCHANGED <<mem, heap, bufs, lastW, epoch, fam, build, ty, res, eq>>

\* let n: &[T] = rec.into();  and the three like it.  The record is passed
\* by value: a Copy record stays usable, any other is moved.
IntoView ==
  \E r \in LiveRecs :
    /\ recs[r].kind \in ViewKinds
    /\ Objs < MaxObjs
    /\ LET n == RecInto(recs[r].kind, recs[r].val) IN
         views' = Append(views,
           [mut |-> ~IsShared(recs[r].kind), text |-> IsText(recs[r].kind),
            ptr |-> n.ptr, len |-> n.len, st |-> "live",
            lin |-> recs[r].lin, from |-> r])
    /\ recs' = [recs EXCEPT
         ![r].st = IF IsCopy(recs[r].kind) THEN "Live" ELSE "Consumed",
         ![r].how = "converted"]
    /\ UNCHANGED <<mem, heap, bufs, lastW, epoch, fam, build, ty, res, eq>>

\* let copy = rec.clone();
CloneRec ==
  \E r \in LiveRecs :
    /\ HasClone(recs[r].kind)
    /\ Objs < MaxObjs
    /\ recs' = Append(recs,
         MkRec(recs[r].kind, RecClone(recs[r].kind, recs[r].val),
               recs[r].lin, recs[r].via, "clone", recs[r].born, recs[r].snap))
    /\ UNCHANGED <<mem, heap, views, bufs, lastW, epoch, fam, build, ty, res, eq>>

\* let rec = Kind::default();
DefaultRec ==
  \E kind \in Kinds :
    /\ InFamily(kind)
    /\ fam.dflt
    /\ Objs < MaxObjs
    /\ recs' = Append(recs,
         MkRec(kind, RecDefault(kind), <<"default", Len(recs) + 1>>, 0, "default",
               epoch, <<>>))
    /\ UNCHANGED <<mem, heap, views, bufs, lastW, epoch, fam, build, ty, res, eq>>

\* --------------------------------------------------------------- writes
\* What a store through the mutable slice s does to memory: slice[i] = val
\* for a [T], make_ascii_uppercase() for a str (the safe mutation of &mut str).
Store(m, s, text, i, val) ==
  IF text
  THEN [a \in Cells |->
          IF a \in AddrsOf(s, SizeOfU8) THEN to_ascii_uppercase(m[a]) ELSE m[a]]
  ELSE [m EXCEPT ![s.ptr + (i - 1) * SizeOfT] = val]
\* The contents the store must leave, given the contents before it.
Stored(pre, text, i, val) ==
  IF text
  THEN [k \in 1..Len(pre) |-> to_ascii_uppercase(pre[k])]
  ELSE [pre EXCEPT ![i] = val]

\* rec.deref_mut()[i] = val;  rec.deref_mut().make_ascii_uppercase();
WriteRec ==
  \E r \in LiveRecs : \E val \in WriteVals :
    /\ HasDerefMut(recs[r].kind)
    /\ epoch < MaxWrites
    /\ LET s == RecDerefMut(recs[r].kind, recs[r].val)
           text == IsText(recs[r].kind)
       IN \E i \in 1..s.len :
            /\ text => i = 1
            /\ mem' = Store(mem, s, text, i, val)
            /\ lastW' = [lin |-> recs[r].lin, by |-> <<"rec", r>>,
                         exp |-> Stored(RecElems(mem, recs[r]), text, i, val)]
    /\ epoch' = epoch + 1
    /\ UNCHANGED <<heap, views, bufs, recs, fam, build, ty, res, eq>>

\* The same store made through a native &mut [T] / &mut str.
WriteView ==
  \E v \in LiveViews : \E val \in WriteVals :
    /\ views[v].mut
    /\ epoch < MaxWrites
    /\ LET s == NativeOf(views[v])
           text == views[v].text
       IN \E i \in 1..s.len :
            /\ text => i = 1
            /\ mem' = Store(mem, s, text, i, val)
            /\ lastW' = [lin |-> views[v].lin, by |-> <<"view", v>>,
                         exp |-> Stored(Elems(mem, s, SizeOf(text)), text, i, val)]
    /\ epoch' = epoch + 1
    /\ UNCHANGED <<heap, views, bufs, recs, fam, build, ty, res, eq>>

\* The same store made through a native Vec<T> / String.
WriteBuf ==
  \E b \in LiveBufs : \E val \in WriteVals :
    /\ epoch < MaxWrites
    /\ LET s == NativeOf(bufs[b])
           text == bufs[b].text
       IN \E i \in 1..s.len :
            /\ text => i = 1
            /\ mem' = Store(mem, s, text, i, val)
            /\ lastW' = [lin |-> bufs[b].lin, by |-> <<"buf", b>>,
                         exp |-> Stored(Elems(mem, s, SizeOf(text)), text, i, val)]
    /\ epoch' = epoch + 1
    /\ UNCHANGED <<heap, views, bufs, recs, fam, build, ty, res, eq>>

\* ------------------------------------------------------ native buffers
\* let b = Vec::with_capacity(cap); b.extend(1..=len);  or the String alike.
NewBuf ==
  \E text \in {fam.text} :
  \E len \in {0, IF text THEN TextLen ELSE NElem} : \E cap \in {len, MaxCap} :
    /\ fam.own
    /\ ~fam.dflt
    /\ Objs < MaxObjs
    /\ Allocs < MaxBufs
    /\ len <= cap
    /\ text => IsUtf8([k \in 1..len |-> SeedByte(k)])
    /\ LET k == Allocs + 1
           size == SizeOf(text)
           ptr == IF cap = 0 THEN dangling(AlignOf(text)) ELSE ArenaBase(k)
       IN /\ bufs' = Append(bufs,
               [text |-> text, ptr |-> ptr, len |-> len, cap |-> cap,
                st |-> "live", lin |-> <<"buf", Len(bufs) + 1>>, from |-> 0])
          /\ heap' = IF cap = 0 THEN heap
                     ELSE Append(heap, [base |-> ptr, st |-> "allocated",
                                        frees |-> 0, by |-> {}])
          /\ mem' = [a \in Cells |->
                       IF \E j \in 1..len : a = ptr + (j - 1) * size
                       THEN (IF text THEN SeedByte((a - ptr) \div size + 1)
                             ELSE SeedElem((a - ptr) \div size + 1))
                       ELSE mem[a]]
    /\ UNCHANGED <<views, recs, lastW, epoch, fam, build, ty, res, eq>>

\* StableVec::from(vec), StableString::from(s): the buffer is moved into the
\* call, wrapped in ManuallyDrop, and its parts are read out.
FromBuf ==
  \E b \in LiveBufs :
    /\ Objs < MaxObjs
    /\ LET kind == IF bufs[b].text THEN "StableString" ELSE "StableVec"
           md == ManuallyDrop_new(bufs[b].st)
       IN /\ recs' = Append(recs,
               MkRec(kind, RecFrom(kind, BufOf(bufs[b])), bufs[b].lin, b, "from",
                     epoch, Elems(mem, NativeOf(bufs[b]), SizeOf(bufs[b].text))))
          /\ bufs' = [bufs EXCEPT ![b].st = IF md = "live" THEN "dropped" ELSE md]
          /\ heap' = ScopeExit(heap, md, BufOf(bufs[b]), b)
    /\ UNCHANGED <<mem, views, lastW, epoch, fam, build, ty, res, eq>>

\* let v: Vec<T> = rec.into();  let s: String = rec.into();
IntoBuf ==
  \E r \in LiveRecs :
    /\ IsOwning(recs[r].kind)
    /\ Objs < MaxObjs
    /\ LET n == RecInto(recs[r].kind, recs[r].val) IN
         bufs' = Append(bufs,
           [text |-> IsText(recs[r].kind), ptr |-> n.ptr, len |-> n.len,
            cap |-> n.cap, st |-> "live", lin |-> recs[r].lin, from |-> r])
    /\ recs' = [recs EXCEPT
         ![r].st = IF IsCopy(recs[r].kind) THEN "Live" ELSE "Consumed",
         ![r].how = "converted"]
    /\ UNCHANGED <<mem, heap, views, lastW, epoch, fam, build, ty, res, eq>>

\* A native Vec / String goes out of scope: its destructor runs.
DropBuf ==
  \E b \in LiveBufs :
    /\ bufs' = [bufs EXCEPT ![b].st = "dropped"]
    /\ heap' = VecDrop(heap, BufOf(bufs[b]), b)
    /\ UNCHANGED <<mem, views, recs, lastW, epoch, fam, build, ty, res, eq>>

\* An owning record goes out of scope without being converted back.
DropRec ==
  \E r \in LiveRecs :
    /\ IsOwning(recs[r].kind)
    /\ recs' = [recs EXCEPT ![r].st = "Consumed", ![r].how = "discarded"]
    /\ heap' = RecDrop(heap, recs[r])
    /\ UNCHANGED <<mem, views, bufs, lastW, epoch, fam, build, ty, res, eq>>

Next ==
  \/ BorrowShared
  \/ BorrowMut
  \/ DropView
  \/ FromView
  \/ IntoView
  \/ CloneRec
  \/ DefaultRec
  \/ WriteRec
  \/ WriteView
  \/ WriteBuf
  \/ NewBuf
  \/ FromBuf
  \/ IntoBuf
  \/ DropBuf
  \/ DropRec

Spec == Init /\ [][Next]_vars

\* ==================================================================
\* The static side: a client compiled against a build of the crate
\* ==================================================================
\* The type expressions with more than two layers are built on these
\* bases: one with an impl, one sized without, one unsized.
DeepBases == {"u8", "u128", "str"}

TypeInit ==
  /\ build \in Builds
  /\ ty = <<>>
  /\ res = NoRes
  /\ mem = <<>>
  /\ heap = <<>>
  /\ views = <<>>
  /\ bufs = <<>>
  /\ recs = <<>>
  /\ lastW = NoWrite
  /\ epoch = 0
  /\ fam = [text |-> FALSE, own |-> FALSE, dflt |-> FALSE]
  /\ eq = NoEq

\* cargo build --features ...: the crate itself is compiled.
Compile ==
  /\ ty = <<>>
  /\ res = NoRes
  /\ res' = [NoRes EXCEPT !.op = "build", !.ok = CrateBuilds(build),
                          !.exports = Exports(build)]
  /\ UNCHANGED <<build, ty>>
  /\ UNCHANGED <<mvars, eq>>

\* The client names a base type.
PickBase ==
  \E con \in BaseCons :
    /\ CrateBuilds(build)
    /\ ty = <<>>
    /\ ty' = BaseTy(con)
    /\ res' = NoRes
    /\ UNCHANGED build
    /\ UNCHANGED <<mvars, eq>>

\* The client wraps the type in one more layer: W<T>, &T, [T; N], ...
WrapTy ==
  \E con \in UnaryCons \cup {"Array"} :
    \E n \in (IF con = "Array" THEN ArrayLens ELSE {0}) :
      /\ ty # <<>>
      /\ res = NoRes
      /\ Len(ty) < MaxTyLen
      /\ Len(ty) = 1 \/ BaseOf(ty) \in DeepBases
      /\ con \in SizedParamCons => IsSized(ty)
      /\ ty' = <<Layer(con, n)>> \o ty
      /\ UNCHANGED <<build, res>>
      /\ UNCHANGED <<mvars, eq>>

\* fn needs<T: StableLayout>() {}  needs::<ty>();
Resolve ==
  /\ ty # <<>>
  /\ res = NoRes
  /\ res' = [NoRes EXCEPT !.op = "resolve", !.ok = StableLayout(ty, build)]
  /\ UNCHANGED <<build, ty>>
  /\ UNCHANGED <<mvars, eq>>

\* let r: Kind<ty>;  (let r: Kind; for a text record)
Instantiate ==
  \E kind \in Kinds :
    /\ ty # <<>>
    /\ res = NoRes
    /\ res' = [NoRes EXCEPT !.op = "instantiate", !.kind = kind,
                            !.ok = Accepts(kind, ty, build)]
    /\ UNCHANGED <<build, ty>>
    /\ UNCHANGED <<mvars, eq>>

\* let r = StableVec::<ty>::default();  let r = StableString::default();
DefaultOwning ==
  \E kind \in {"StableVec", "StableString"} :
    /\ ty # <<>>
    /\ res = NoRes
    /\ Accepts(kind, ty, build)
    /\ res' = [NoRes EXCEPT !.op = "default", !.kind = kind, !.ok = TRUE,
                            !.val = IF kind = "StableVec"
                                    THEN StableVec_default_at(ty)
                                    ELSE StableString_default]
    /\ UNCHANGED <<build, ty>>
    /\ UNCHANGED <<mvars, eq>>

\* let r = SharedSlice::<ty>::default();  let r = SharedStr::default();
\* and the unique kinds alike.
DefaultView ==
  \E kind \in ViewKinds :
    /\ ty # <<>>
    /\ res = NoRes
    /\ Accepts(kind, ty, build)
    /\ res' = [NoRes EXCEPT !.op = "default_view", !.kind = kind, !.ok = TRUE,
                            !.val = CASE kind = "SharedSlice" -> SharedSlice_default_at(ty)
                                      [] kind = "UniqueSlice" -> UniqueSlice_default_at(ty)
                                      [] kind = "SharedStr" -> SharedStr_default
                                      [] kind = "UniqueStr" -> UniqueStr_default]
    /\ UNCHANGED <<build, ty>>
    /\ UNCHANGED <<mvars, eq>>

\* core::mem::size_of::<Kind>() and the offsets of its fields, as a foreign
\* caller on a target of some pointer width sees them.
LayoutOf ==
  \E kind \in Kinds : \E w \in PtrWidths :
    /\ ty = <<>>
    /\ res = NoRes
    /\ CrateBuilds(build)
    /\ Available(kind, build)
    /\ res' = [NoRes EXCEPT !.op = "layout", !.kind = kind, !.ok = TRUE,
                            !.val = [width |-> w, repr |-> repr_C(StructFields(kind, w))]]
    /\ UNCHANGED <<build, ty>>
    /\ UNCHANGED <<mvars, eq>>

TypeNext ==
  \/ Compile
  \/ PickBase
  \/ WrapTy
  \/ Resolve
  \/ Instantiate
  \/ DefaultOwning
  \/ DefaultView
  \/ LayoutOf

TypeSpec == TypeInit /\ [][TypeNext]_vars

\* ==================================================================
\* Comparing two records
\* ==================================================================
\* The two arrays (or strs) the compared records are built from.
EqBase(x) == SliceBase + (x - 1) * EqElems * SizeOfT
EqCells(text) == {EqBase(x) + (j - 1) * SizeOf(text) : x \in {1, 2}, j \in 1..EqElems}
\* The element values (ASCII bytes, for a str).
EqVals == {1, 2}

\* No record type has an `impl PartialEq` or a derive of it.
HasPartialEq(kind) == FALSE

\* A mutated comparison: the fields of the two fat pointers, as a derived
\* PartialEq would compare them.
slice_eq_fields(m, a, b, size) == a.ptr = b.ptr /\ a.len = b.len
\* <[T] as PartialEq>::eq, and str's over its bytes: the lengths, then
\* the elements pairwise.
slice_eq(m, a, b, size) ==
  IF a.len # b.len THEN FALSE
  ELSE \A i \in 1..a.len : m[a.ptr + (i - 1) * size] = m[b.ptr + (i - 1) * size]

EqInit ==
  /\ \E text \in BOOLEAN : \E m \in [EqCells(text) -> EqVals] :
       eq = [NoEq EXCEPT !.text = text, !.m = m]
  /\ mem = <<>>
  /\ heap = <<>>
  /\ views = <<>>
  /\ bufs = <<>>
  /\ recs = <<>>
  /\ lastW = NoWrite
  /\ epoch = 0
  /\ fam = [text |-> FALSE, own |-> FALSE, dflt |-> FALSE]
  /\ build = FullBuild
  /\ ty = <<>>
  /\ res = NoRes

\* let a = Kind::from(x);  let b = Kind::from(y);  Two unique or owning
\* records are built from different arrays.
TakeRecords ==
  \E kind \in Kinds : \E xa \in {1, 2} : \E xb \in {1, 2} :
    \E la \in 0..EqElems : \E lb \in 0..EqElems :
      /\ eq.kind = ""
      /\ IsText(kind) = eq.text
      /\ ~IsShared(kind) => xa = 1 /\ xb = 2
      /\ eq' = [eq EXCEPT
           !.kind = kind,
           !.lhs = RecFrom(kind, [ptr |-> EqBase(xa), len |-> la, cap |-> EqElems]),
           !.rhs = RecFrom(kind, [ptr |-> EqBase(xb), len |-> lb, cap |-> EqElems])]
      /\ UNCHANGED <<mvars, tvars>>

\* a == b, on the records themselves: accepted only with a PartialEq impl.
CompareRecords ==
  /\ eq.kind # ""
  /\ eq.op = "none"
  /\ eq' = [eq EXCEPT
       !.op = "rec_eq",
       !.ok = HasPartialEq(eq.kind),
       !.same = /\ HasPartialEq(eq.kind)
                /\ slice_eq(eq.m, RecDeref(eq.kind, eq.lhs),
                            RecDeref(eq.kind, eq.rhs), SizeOf(eq.text))]
  /\ UNCHANGED <<mvars, tvars>>

\* let x: &[T] = a.into();  let y: &[T] = b.into();  x == y  (as the tests
\* compare), and the same for the other native forms.
CompareViews ==
  /\ eq.kind # ""
  /\ eq.op = "none"
  /\ eq' = [eq EXCEPT
       !.op = "view_eq",
       !.ok = TRUE,
       !.same = slice_eq(eq.m, RecInto(eq.kind, eq.lhs),
                         RecInto(eq.kind, eq.rhs), SizeOf(eq.text))]
  /\ UNCHANGED <<mvars, tvars>>

EqNext ==
  \/ TakeRecords
  \/ CompareRecords
  \/ CompareViews

EqSpec == EqInit /\ [][EqNext]_vars

\* ==================================================================
\* Records filled in by foreign code
\* ==================================================================
\* The fields foreign code may put into a record of a kind: null, aligned
\* and misaligned addresses, lengths within and beyond the memory, and for
\* the owning kinds capacities right and wrong.
ForeignVals(kind) ==
  IF IsOwning(kind)
  THEN [ptr : {0, dangling(AlignOf(IsText(kind))), ArenaBase(1)},
        len : {0, NElem, MaxCap + 1},
        cap : {0, MaxCap}]
  ELSE IF IsText(kind)
  THEN [ptr : {0, TextBase, TextBase + 1}, len : {0, 1, TextLen, TextLen + 1}]
  ELSE [ptr : {0, SliceBase, SliceBase + 1, SliceBase + SizeOfT},
        len : {0, 1, NElem, NElem + 1}]
\* The native values the crate's own From is called with.
NativeChoices(kind, m) ==
  IF IsOwning(kind)
  THEN {Vec_default(IsText(kind))}
         \cup {[ptr |-> ArenaBase(1), len |-> l, cap |-> MaxCap] : l \in {0, NElem}}
  ELSE IF IsText(kind) THEN {t \in TextChoices : InStr(m, t)}
  ELSE SliceChoices

\* The safety conditions of slice::from_raw_parts(_mut), of
\* str::from_utf8_unchecked(_mut) and of Vec / String::from_raw_parts on
\* the fields of a record: a non-null aligned address, the whole range
\* inside one object, valid UTF-8 for a str, and for a buffer the block and
\* capacity the allocator gave.
ValidFields(kind, val, m, h) ==
  LET text == IsText(kind)
      region == IF IsOwning(kind) THEN HeapCells
                ELSE IF text THEN TextCells ELSE SliceCells
  IN /\ val.ptr # 0
     /\ val.ptr % AlignOf(text) = 0
     /\ AddrsOf([ptr |-> val.ptr, len |-> val.len], SizeOf(text)) \subseteq region
     /\ text => IsUtf8(Elems(m, [ptr |-> val.ptr, len |-> val.len], SizeOfU8))
     /\ IsOwning(kind) =>
          /\ val.len <= val.cap
          /\ \/ val.cap = 0
             \/ \E k \in DOMAIN h :
                  h[k].base = val.ptr /\ h[k].st = "allocated" /\ val.cap = MaxCap
\* Whether a call completes.  A call whose safety conditions hold does; one
\* whose conditions are broken has undefined behaviour: it may hand back
\* the value all the same or stop the program.
Completes(valid) == IF valid THEN {TRUE} ELSE BOOLEAN

ForeignInit ==
  /\ mem = [a \in Cells |->
              IF a \in SliceCells THEN SeedElem((a - SliceBase) \div SizeOfT + 1)
              ELSE IF a \in TextCells THEN SeedByte(a - TextBase + 1)
              ELSE 0]
  /\ heap = <<[base |-> ArenaBase(1), st |-> "allocated", frees |-> 0, by |-> {}]>>
  /\ views = <<>>
  /\ bufs = <<>>
  /\ recs = <<>>
  /\ lastW = NoWrite
  /\ epoch = 0
  /\ fam = [text |-> FALSE, own |-> FALSE, dflt |-> FALSE]
  /\ build = FullBuild
  /\ ty = <<>>
  /\ res = NoRes
  /\ eq = NoEq

\* The outcome of a call on the record at hand.
Outcome(op, kind, ok, val) ==
  [NoRes EXCEPT !.op = op, !.kind = kind, !.ok = ok, !.val = IF ok THEN val ELSE NoVal]

\* Foreign code writes the fields of a record and hands it over.
ForeignFill ==
  \E kind \in Kinds : \E val \in ForeignVals(kind) :
    /\ recs = <<>>
    /\ recs' = <<MkRec(kind, val, <<"foreign", 1>>, 0, "foreign", 0, <<>>)>>
    /\ res' = NoRes
    /\ UNCHANGED <<mem, heap, views, bufs, lastW, epoch, fam, build, ty, eq>>

\* Kind::from(native)
CallFrom ==
  \E kind \in Kinds : \E n \in NativeChoices(kind, mem) :
    /\ recs = <<>>
    /\ recs' = <<MkRec(kind, RecFrom(kind, n), <<"native", 1>>, 0, "from", 0, <<>>)>>
    /\ res' = Outcome("from", kind, TRUE, RecFrom(kind, n))
    /\ UNCHANGED <<mem, heap, views, bufs, lastW, epoch, fam, build, ty, eq>>

\* Kind::default()
CallDefault ==
  \E kind \in Kinds :
    /\ recs = <<>>
    /\ recs' = <<MkRec(kind, RecDefault(kind), <<"default", 1>>, 0, "default", 0, <<>>)>>
    /\ res' = Outcome("default", kind, TRUE, RecDefault(kind))
    /\ UNCHANGED <<mem, heap, views, bufs, lastW, epoch, fam, build, ty, eq>>

\* let n = rec.into();
CallInto ==
  /\ recs # <<>>
  /\ \E ok \in Completes(ValidFields(recs[1].kind, recs[1].val, mem, heap)) :
      /\ res' = Outcome("into", recs[1].kind, ok, RecInto(recs[1].kind, recs[1].val))
      /\ UNCHANGED <<mem, heap, views, bufs, recs, lastW, epoch, fam, build, ty, eq>>

\* let s = rec.deref();
CallDeref ==
  /\ recs # <<>>
  /\ \E ok \in Completes(ValidFields(recs[1].kind, recs[1].val, mem, heap)) :
      /\ res' = Outcome("deref", recs[1].kind, ok, RecDeref(recs[1].kind, recs[1].val))
      /\ UNCHANGED <<mem, heap, views, bufs, recs, lastW, epoch, fam, build, ty, eq>>

\* let s = rec.deref_mut();
CallDerefMut ==
  /\ recs # <<>>
  /\ \E ok \in Completes(ValidFields(recs[1].kind, recs[1].val, mem, heap)) :
      /\ HasDerefMut(recs[1].kind)
      /\ res' = Outcome("deref_mut", recs[1].kind, ok,
                        RecDerefMut(recs[1].kind, recs[1].val))
      /\ UNCHANGED <<mem, heap, views, bufs, recs, lastW, epoch, fam, build, ty, eq>>

\* let c = rec.clone();
CallClone ==
  /\ recs # <<>>
  /\ HasClone(recs[1].kind)
  /\ res' = Outcome("clone", recs[1].kind, TRUE, RecClone(recs[1].kind, recs[1].val))
  /\ UNCHANGED <<mem, heap, views, bufs, recs, lastW, epoch, fam, build, ty, eq>>

ForeignNext ==
  \/ ForeignFill
  \/ CallFrom
  \/ CallDefault
  \/ CallInto
  \/ CallDeref
  \/ CallDerefMut
  \/ CallClone

ForeignSpec == ForeignInit /\ [][ForeignNext]_vars

\* ==================================================================
\* Properties
\* ==================================================================
\* The native value a record was built from.
SourceOf(r) == IF IsOwning(r.kind) THEN bufs[r.via] ELSE views[r.via]
\* The views and buffers converted back from a record built from a native
\* value (via names that value; a Default record has none).
BackViews == {w \in DOMAIN views :
                views[w].from # 0 /\ recs[views[w].from].via # 0}
BackBufs == {b \in DOMAIN bufs :
               bufs[b].from # 0 /\ recs[bufs[b].from].via # 0}
ViewElems(w) == Elems(mem, NativeOf(views[w]), SizeOf(views[w].text))
BufElems(b) == Elems(mem, NativeOf(bufs[b]), SizeOf(bufs[b].text))

\* C1: for the four borrowed-view kinds, a native view converted into the
\* record and back has the base address, the length and the elements of
\* the view it started from, the empty view included.
C1_ViewRoundTrip ==
  \A w \in BackViews :
    LET r == recs[views[w].from]
        v == views[r.via]
    IN /\ views[w].ptr = v.ptr
       /\ views[w].len = v.len
       /\ views[w].mut = v.mut
       /\ ViewElems(w) = ViewElems(r.via)
       /\ r.born = epoch => ViewElems(w) = r.snap
C1_Witness ==
  \E w \in BackViews :
    /\ views[w].len > 0
    /\ views[w].ptr # SliceBase
    /\ recs[views[w].from].kind = "SharedSlice"

\* C2: a Vec<T> or String converted into the owning record and back has
\* the base address, the length, the elements and the capacity it had.
C2_BufRoundTrip ==
  \A b \in BackBufs :
    LET r == recs[bufs[b].from]
        v == bufs[r.via]
    IN /\ bufs[b].ptr = v.ptr
       /\ bufs[b].len = v.len
       /\ bufs[b].cap = v.cap
       /\ r.born = epoch => BufElems(b) = r.snap
C2_Witness ==
  \E b \in BackBufs :
    /\ bufs[b].len > 0
    /\ bufs[b].cap > bufs[b].len
    /\ recs[bufs[b].from].kind = "StableVec"

\* C3: every heap block is released at most once, and never by the native
\* buffer that was handed to From to build an owning record.
C3_NoDoubleFree ==
  /\ \A k \in DOMAIN heap : heap[k].frees <= 1
  /\ \A r \in DOMAIN recs :
       (IsOwning(recs[r].kind) /\ recs[r].origin = "from") =>
         \A k \in DOMAIN heap : recs[r].via \notin heap[k].by
C3_Witness ==
  \E k \in DOMAIN heap : \E b \in DOMAIN bufs :
    /\ heap[k].frees = 1
    /\ heap[k].by = {b}
    /\ bufs[b].from # 0

\* C4: no live unique-view or owning record shares a non-empty region with
\* another live record or with a live native reference converted back from
\* a record.
C4_UniqueIsExclusive ==
  \A r \in LiveRecs :
    HasDerefMut(recs[r].kind) =>
      /\ \A r2 \in LiveRecs \ {r} :
           ~Overlap(RecSlice(recs[r]), RecSize(recs[r]),
                    RecSlice(recs[r2]), RecSize(recs[r2]))
      /\ \A w \in LiveViews :
           views[w].from # 0 =>
             ~Overlap(RecSlice(recs[r]), RecSize(recs[r]),
                      NativeOf(views[w]), SizeOf(views[w].text))

\* C5, as stated: a record of any kind that was converted back or
\* discarded is Consumed.
C5_AnyKindConsumed ==
  \A r \in DOMAIN recs : recs[r].how # "live" => recs[r].st = "Consumed"
\* C5, amended: a record of a kind that is not Copy (UniqueSlice, StableVec,
\* StableString) that was converted back or discarded is Consumed and stays
\* as it is: no step changes it, converts it again or writes through it.
NotCopyKinds == {"UniqueSlice", "StableVec", "StableString"}
Spent(r) == recs[r].how # "live" /\ recs[r].kind \in NotCopyKinds
C5_ConsumedForGood ==
  [][\A r \in DOMAIN recs :
       Spent(r) =>
         /\ recs[r].st = "Consumed"
         /\ recs'[r] = recs[r]
         /\ \A w \in DOMAIN views' : w \notin DOMAIN views => views'[w].from # r
         /\ \A b \in DOMAIN bufs' : b \notin DOMAIN bufs => bufs'[b].from # r
         /\ epoch' # epoch => lastW'.by # <<"rec", r>>]_vars
C5_Witness ==
  \E r \in DOMAIN recs : \E w \in DOMAIN views :
    /\ recs[r].kind = "UniqueSlice"
    /\ recs[r].how = "converted"
    /\ views[w].from = r
    /\ Objs < MaxObjs

\* C6: the block of an owning record that was discarded without being
\* converted back stays allocated and is never released.
C6_LeakStaysAllocated ==
  \A r \in DOMAIN recs :
    (IsOwning(recs[r].kind) /\ recs[r].how = "discarded") =>
      \A k \in DOMAIN heap :
        heap[k].base = recs[r].val.ptr =>
          heap[k].st = "allocated" /\ heap[k].frees = 0
C6_Witness ==
  \E r \in DOMAIN recs : \E k \in DOMAIN heap :
    /\ recs[r].how = "discarded"
    /\ recs[r].val.cap > 0
    /\ heap[k].base = recs[r].val.ptr
    /\ Objs = MaxObjs

\* C7: a valid str or String converted into its text record (SharedStr,
\* UniqueStr, StableString) and back has the same bytes in the same order,
\* and they are valid UTF-8.
C7_TextRoundTrip ==
  /\ \A w \in BackViews :
       views[w].text =>
         /\ IsUtf8(ViewElems(w))
         /\ recs[views[w].from].born = epoch =>
              ViewElems(w) = recs[views[w].from].snap
  /\ \A b \in BackBufs :
       bufs[b].text =>
         /\ IsUtf8(BufElems(b))
         /\ recs[bufs[b].from].born = epoch =>
              BufElems(b) = recs[bufs[b].from].snap
C7_Witness ==
  \E b \in BackBufs :
    /\ bufs[b].text
    /\ bufs[b].cap > bufs[b].len
    /\ \E i \in 1..bufs[b].len : ~IsAscii(BufElems(b)[i])

\* C8: a record built from a native view or buffer has that value's length,
\* and Deref yields at every index below it the element the native view
\* converted back from the record yields.
C8_LengthAndDeref ==
  \A r \in LiveRecs :
    recs[r].via # 0 =>
      LET d == RecElems(mem, recs[r])
          n == Elems(mem, RecInto(recs[r].kind, recs[r].val), RecSize(recs[r]))
      IN /\ recs[r].val.len = SourceOf(recs[r]).len
         /\ \A i \in 1..recs[r].val.len :
              i \in DOMAIN d /\ i \in DOMAIN n /\ d[i] = n[i]
C8_Witness ==
  \E r \in LiveRecs :
    /\ recs[r].kind = "SharedSlice"
    /\ recs[r].origin = "from"
    /\ recs[r].val.len > 1

\* C9: the Default value of every record kind has length 0 and a non-null
\* address, and a read through it touches no address.
C9_DefaultIsEmpty ==
  \A r \in DOMAIN recs :
    recs[r].origin = "default" =>
      /\ recs[r].val.len = 0
      /\ recs[r].val.ptr # 0
      /\ AddrsOf(RecSlice(recs[r]), RecSize(recs[r])) = {}
C9_Witness ==
  \E r \in LiveRecs : recs[r].origin = "default" /\ recs[r].kind = "SharedSlice"

\* C10: after a store made through a unique-view or owning record, or
\* through the native form converted back from it, every live record and
\* native value of that lineage reads the stored element at its index and
\* the elements it had before everywhere else.
C10_WriteIsSeen ==
  lastW # NoWrite =>
    /\ \A r \in LiveRecs :
         recs[r].lin = lastW.lin => RecElems(mem, recs[r]) = lastW.exp
    /\ \A w \in LiveViews :
         views[w].lin = lastW.lin => ViewElems(w) = lastW.exp
    /\ \A b \in LiveBufs :
         bufs[b].lin = lastW.lin => BufElems(b) = lastW.exp
C10_Witness ==
  \E r \in LiveRecs :
    /\ recs[r].kind = "UniqueSlice"
    /\ recs[r].lin = lastW.lin
    /\ recs[r].born > 0
    /\ views[recs[r].via].from # 0
    /\ \E i \in 1..Len(lastW.exp) : lastW.exp[i] \in WriteVals

\* C11: every live owning record (StableVec, StableString) has a length no
\* greater than its capacity.
C11_LenWithinCap ==
  \A r \in LiveRecs :
    IsOwning(recs[r].kind) => recs[r].val.len <= recs[r].val.cap
C11_Witness ==
  \E r \in LiveRecs :
    /\ recs[r].kind = "StableVec"
    /\ recs[r].val.len > 0
    /\ recs[r].val.cap > recs[r].val.len

\* C13, as stated: every record was produced by converting a native view
\* or buffer.
C13_OnlyFromNative ==
  \A r \in DOMAIN recs : recs[r].origin = "from"
\* C13, amended: a step creates at most one record, Live, in one of three
\* ways: converted from a native view or buffer that was live before the
\* step; the Default value of its kind; or a duplicate, with the same
\* fields, of a record that was Live before the step and whose kind is
\* SharedSlice, SharedStr or UniqueStr.  No record returns to Live.
C13_LiveOnlyByConstruction ==
  [][/\ Len(recs') <= Len(recs) + 1
     /\ \A r \in DOMAIN recs : recs'[r].st = "Live" => recs[r].st = "Live"
     /\ \A r \in DOMAIN recs' \ DOMAIN recs :
          /\ recs'[r].st = "Live"
          /\ \/ /\ recs'[r].origin = "from"
                /\ IF IsOwning(recs'[r].kind)
                   THEN /\ recs'[r].via \in LiveBufs
                        /\ recs'[r].val = BufOf(bufs[recs'[r].via])
                   ELSE /\ recs'[r].via \in LiveViews
                        /\ recs'[r].val = NativeOf(views[recs'[r].via])
             \/ /\ recs'[r].origin = "default"
                /\ recs'[r].val.len = 0
             \/ /\ recs'[r].origin = "clone"
                /\ recs'[r].kind \in {"SharedSlice", "SharedStr", "UniqueStr"}
                /\ \E q \in LiveRecs :
                     /\ recs[q].kind = recs'[r].kind
                     /\ recs[q].val = recs'[r].val]_vars
C13_Witness ==
  \E r \in LiveRecs : \E q \in LiveRecs :
    /\ recs[r].origin = "clone"
    /\ recs[r].kind = "SharedSlice"
    /\ recs[q].origin = "from"
    /\ recs[r].val = recs[q].val
    /\ recs[r].val.len > 0

\* C12, as stated: the default owning record has length 0 and capacity 0
\* for every admissible element type.
C12_DefaultCapZero ==
  res.op = "default" => res.val.len = 0 /\ res.val.cap = 0
\* C12, amended: the default owning record is the record built from an
\* empty native buffer that was never allocated; its length is 0 and its
\* address is not null; its capacity is 0, except that a StableVec of a
\* zero-sized element type has the capacity usize::MAX.
C12_DefaultIsEmptyBuffer ==
  res.op = "default" =>
    LET zst == res.kind = "StableVec" /\ IsZst(ty)
        align == IF res.kind = "StableVec" THEN AlignOfTy(ty) ELSE AlignOfU8
    IN /\ res.val.len = 0
       /\ res.val.ptr # 0
       /\ res.val.cap = (IF zst THEN UsizeMax ELSE 0)
       /\ res.val = RecFrom(res.kind,
                      [ptr |-> align, len |-> 0, cap |-> IF zst THEN UsizeMax ELSE 0])
C12_Witness ==
  /\ res.op = "default"
  /\ res.kind = "StableVec"
  /\ Len(ty) > 1
  /\ IsZst(ty)
  /\ res.val.cap = UsizeMax

\* C14: the use of a sequence record (SharedSlice, UniqueSlice, StableVec)
\* at element type T is accepted by the compiler only if T is Sized and
\* StableLayout, and is accepted whenever T is and the build offers the
\* record; a text record is accepted whatever type the client has at hand.
C14_SeqNeedsStableElem ==
  res.op = "instantiate" =>
    IF res.kind \in {"SharedSlice", "UniqueSlice", "StableVec"}
    THEN res.ok <=> /\ res.kind \in Exports(build)
                    /\ IsSized(ty)
                    /\ StableLayout(ty, build)
    ELSE res.ok <=> res.kind \in Exports(build)
C14_Witness ==
  /\ res.op = "instantiate"
  /\ res.kind = "UniqueSlice"
  /\ ~res.ok
  /\ IsSized(ty)
  /\ Len(ty) > 1

\* C15, as stated: every primitive integer of every width, both floats,
\* bool, char and () are StableLayout.
C15_AllIntsStable ==
  (res.op = "resolve" /\ Len(ty) = 1) =>
    (BaseOf(ty) \in {"u8", "u16", "u32", "u64", "u128", "usize",
                     "i8", "i16", "i32", "i64", "i128", "isize",
                     "f32", "f64", "bool", "char", "unit"} => res.ok)
\* C15, amended: the primitive integers of 8, 16, 32 and 64 bits and the
\* pointer-sized ones, both floats, bool, char and () are StableLayout; the
\* 128-bit integers are not.
C15_BaseTypesStable ==
  (res.op = "resolve" /\ Len(ty) = 1) =>
    /\ BaseOf(ty) \in {"u8", "u16", "u32", "u64", "usize",
                       "i8", "i16", "i32", "i64", "isize",
                       "f32", "f64", "bool", "char", "unit"} => res.ok
    /\ BaseOf(ty) \in {"u128", "i128"} => ~res.ok
C15_Witness ==
  /\ res.op = "resolve"
  /\ ty = BaseTy("char")
  /\ res.ok
  /\ ~build.alloc

\* C16, as stated: [T; N] is StableLayout exactly when T is, for every N.
C16_AnyArrayLen ==
  (res.op = "resolve" /\ Head(ty).con = "Array") =>
    (res.ok <=> StableLayout(Tail(ty), build))
\* C16, amended: [T; N] is StableLayout exactly when T is and N is one of
\* 0..32, 48, 64, 96, 128, 256, 512, 1024, 2048, 4096; for any other N it
\* is not, whatever T is.
C16_ListedArrayLens ==
  (res.op = "resolve" /\ Head(ty).con = "Array") =>
    (res.ok <=>
       /\ Head(ty).n \in (0..32 \cup {48, 64, 96, 128, 256, 512, 1024, 2048, 4096})
       /\ StableLayout(Tail(ty), build))
C16_Witness ==
  /\ res.op = "resolve"
  /\ Len(ty) = 3
  /\ Head(ty) = Layer("Array", 3)
  /\ res.ok

\* C17, as stated: for each of &T, &mut T, *const T, *mut T, NonNull<T>,
\* the pointer and its Option are StableLayout exactly when T is Sized and
\* StableLayout.
C17_OptionOfAnyPointer ==
  res.op = "resolve" =>
    /\ (Len(ty) > 1 /\ Head(ty).con \in {"Ref", "RefMut", "ConstPtr", "MutPtr", "NonNull"}) =>
         (res.ok <=> IsSized(Tail(ty)) /\ StableLayout(Tail(ty), build))
    /\ (Len(ty) > 2 /\ Head(ty).con = "Option"
          /\ ty[2].con \in {"Ref", "RefMut", "ConstPtr", "MutPtr", "NonNull"}) =>
         (res.ok <=> IsSized(Tail(Tail(ty))) /\ StableLayout(Tail(Tail(ty)), build))
\* C17, amended: each of the five pointer types is StableLayout exactly
\* when T is Sized and StableLayout; so is the Option of &T, &mut T and
\* NonNull<T>; the Option of a raw pointer never is.
C17_PointerIffPointee ==
  res.op = "resolve" =>
    /\ (Len(ty) > 1 /\ Head(ty).con \in {"Ref", "RefMut", "ConstPtr", "MutPtr", "NonNull"}) =>
         (res.ok <=> IsSized(Tail(ty)) /\ StableLayout(Tail(ty), build))
    /\ (Len(ty) > 2 /\ Head(ty).con = "Option"
          /\ ty[2].con \in {"Ref", "RefMut", "NonNull"}) =>
         (res.ok <=> IsSized(Tail(Tail(ty))) /\ StableLayout(Tail(Tail(ty)), build))
    /\ (Len(ty) > 2 /\ Head(ty).con = "Option"
          /\ ty[2].con \in {"ConstPtr", "MutPtr"}) => ~res.ok
C17_Witness ==
  /\ res.op = "resolve"
  /\ Len(ty) = 3
  /\ Head(ty).con = "Option"
  /\ ty[2].con = "RefMut"
  /\ res.ok

\* C18: Wrapping<T>, ManuallyDrop<T>, Cell<T>, UnsafeCell<T> and
\* PhantomData<T> are StableLayout exactly when T is; PhantomData<T> of a T
\* that is not StableLayout is not.
C18_WrapperIffPayload ==
  (res.op = "resolve" /\ Len(ty) > 1
     /\ Head(ty).con \in {"Wrapping", "ManuallyDrop", "Cell", "UnsafeCell", "PhantomData"}) =>
    (res.ok <=> StableLayout(Tail(ty), build))
C18_Witness ==
  /\ res.op = "resolve"
  /\ Head(ty).con = "PhantomData"
  /\ Len(ty) = 2
  /\ BaseOf(ty) = "u128"
  /\ ~res.ok

\* C19: a build offers StableVec, StableString and the impls for Box<T>
\* and Option<Box<T>> exactly when feature alloc is on.
C19_AllocEnablesAll ==
  res.op = "build" =>
    \A item \in {"StableVec", "StableString", "Box", "OptionBox"} :
      item \in res.exports <=> build.alloc

\* C20, as stated: two records of the same kind can be compared, and the
\* comparison is true exactly when their views have the same length and
\* equal elements at every index.
C20_RecordsCompare ==
  eq.op = "rec_eq" =>
    /\ eq.ok
    /\ eq.same <=>
         Elems(eq.m, RecInto(eq.kind, eq.lhs), SizeOf(eq.text))
           = Elems(eq.m, RecInto(eq.kind, eq.rhs), SizeOf(eq.text))
\* C20, amended: the records themselves cannot be compared (no record type
\* has an equality); the comparison of the views converted back from two
\* records of the same kind is true exactly when the views have the same
\* length and equal elements at every index, whatever their addresses.
C20_ViewsCompareByElements ==
  /\ eq.op = "rec_eq" => ~eq.ok
  /\ eq.op = "view_eq" =>
       /\ eq.ok
       /\ eq.same <=>
            Elems(eq.m, RecInto(eq.kind, eq.lhs), SizeOf(eq.text))
              = Elems(eq.m, RecInto(eq.kind, eq.rhs), SizeOf(eq.text))
C20_Witness ==
  /\ eq.op = "view_eq"
  /\ eq.kind = "SharedSlice"
  /\ eq.same
  /\ eq.lhs.ptr # eq.rhs.ptr
  /\ eq.lhs.len > 1

\* C22: several shared-view records (SharedSlice, SharedStr) made by
\* duplication are live over one region at once, and in no step do the
\* elements a live shared-view record covers change, nor is a store ever
\* made through a shared-view record.
C22_SharedNeverWrites ==
  [][\A r \in LiveRecs :
       IsShared(recs[r].kind) =>
         /\ RecElems(mem', recs[r]) = RecElems(mem, recs[r])
         /\ epoch' # epoch => lastW'.by # <<"rec", r>>
         /\ ~HasDerefMut(recs[r].kind)]_vars
C22_Witness ==
  \E r1 \in LiveRecs : \E r2 \in LiveRecs \ {r1} : \E r3 \in LiveRecs \ {r1, r2} :
    /\ IsShared(recs[r1].kind)
    /\ recs[r2].origin = "clone"
    /\ recs[r3].origin = "clone"
    /\ recs[r1].val.len > 0
    /\ recs[r2].val = recs[r1].val
    /\ recs[r3].val = recs[r1].val

\* C24: a store made through a live unique-view or owning record leaves
\* every record as it was (address, length, capacity and state), leaves the
\* allocator's blocks, the native buffers and the native references as they
\* were, and changes no address outside the record's length; a read through
\* the record covers exactly that range.
C24_DerefKeepsFields ==
  [][\A r \in LiveRecs :
       (HasDerefMut(recs[r].kind) /\ epoch' # epoch /\ lastW'.by = <<"rec", r>>) =>
         /\ recs' = recs
         /\ heap' = heap
         /\ bufs' = bufs
         /\ views' = views
         /\ RecSlice(recs'[r]) = [ptr |-> recs[r].val.ptr, len |-> recs[r].val.len]
         /\ \A a \in Cells :
              mem'[a] # mem[a] =>
                a \in AddrsOf([ptr |-> recs[r].val.ptr, len |-> recs[r].val.len],
                              RecSize(recs[r]))]_vars
C24_Witness ==
  /\ lastW.by[1] = "rec"
  /\ recs[lastW.by[2]].kind = "StableVec"
  /\ recs[lastW.by[2]].st = "Live"
  /\ recs[lastW.by[2]].val.cap > recs[lastW.by[2]].val.len
  /\ \E a \in HeapCells : mem[a] \in WriteVals

\* C25: the bytes a live text record (SharedStr, UniqueStr, StableString)
\* built from a valid str or String covers are valid UTF-8 in every
\* reachable state, the states after a store through the write access of
\* UniqueStr or StableString included.
C25_TextStaysUtf8 ==
  \A r \in LiveRecs :
    (IsText(recs[r].kind) /\ recs[r].via # 0) =>
      IsUtf8(RecElems(mem, recs[r]))
C25_Witness ==
  \E r \in LiveRecs :
    /\ recs[r].kind = "UniqueStr"
    /\ lastW.by = <<"rec", r>>
    /\ recs[r].via # 0
    /\ \E i \in 1..recs[r].val.len : ~IsAscii(RecElems(mem, recs[r])[i])
    /\ \E i \in 1..recs[r].val.len :
         RecElems(mem, recs[r])[i] # recs[r].snap[i]

\* C26: every heap block has at most one owner among the live native
\* buffers and the live owning records, and a released block has none; no
\* owning record is a duplicate; the buffer an owning record was built from
\* is not live, and the record a buffer was converted back from is Consumed.
C26_OneOwner ==
  /\ \A k \in DOMAIN heap :
       LET ownB == {b \in LiveBufs : bufs[b].cap > 0 /\ bufs[b].ptr = heap[k].base}
           ownR == {r \in LiveRecs : /\ recs[r].kind \in {"StableVec", "StableString"}
                                     /\ recs[r].val.cap > 0
                                     /\ recs[r].val.ptr = heap[k].base}
       IN /\ Cardinality(ownB) + Cardinality(ownR) <= 1
          /\ heap[k].st = "freed" => ownB = {} /\ ownR = {}
  /\ \A r \in DOMAIN recs :
       recs[r].kind \in {"StableVec", "StableString"} =>
         /\ recs[r].origin # "clone"
         /\ recs[r].origin = "from" => bufs[recs[r].via].st \notin {"live"}
  /\ \A b \in DOMAIN bufs :
       bufs[b].from # 0 => recs[bufs[b].from].st = "Consumed"
C26_Witness ==
  \E b \in LiveBufs : \E k \in DOMAIN heap :
    /\ bufs[b].from # 0
    /\ bufs[b].cap > 0
    /\ heap[k].base = bufs[b].ptr
    /\ heap[k].st = "allocated"
    /\ recs[bufs[b].from].origin = "from"
    /\ bufs[recs[bufs[b].from].via].st = "forgotten"

\* C27: a live record of any of the six kinds, converted to its native form
\* and built again from that form, has the address and the length (and,
\* for StableVec and StableString, the capacity) it had before; so has
\* every record the client built from a native value converted back from
\* a record.
C27_RecRoundTrip ==
  /\ \A r \in LiveRecs :
       RecFrom(recs[r].kind, RecInto(recs[r].kind, recs[r].val)) = recs[r].val
  /\ \A r2 \in DOMAIN recs :
       recs[r2].origin = "from" =>
         LET n == SourceOf(recs[r2]) IN
           n.from # 0 =>
             /\ recs[n.from].kind = recs[r2].kind
             /\ recs[r2].val = recs[n.from].val
C27_Witness ==
  \E r2 \in LiveRecs :
    /\ recs[r2].kind = "StableString"
    /\ recs[r2].origin = "from"
    /\ bufs[recs[r2].via].from # 0
    /\ recs[r2].val.len > 0
    /\ recs[r2].val.cap > recs[r2].val.len

\* C28: the default record of a borrowed-view kind has length 0 and, as
\* its address, the alignment of its element type (1 for SharedStr and
\* UniqueStr): not null and a multiple of that alignment, and not the same
\* address for element types of different alignment.
C28_SentinelIsAlignment ==
  /\ res.op = "default_view" =>
       LET align == IF res.kind \in {"SharedStr", "UniqueStr"} THEN 1 ELSE AlignOfTy(ty)
       IN /\ res.val.len = 0
          /\ res.val.ptr = align
          /\ res.val.ptr # 0
          /\ res.val.ptr % align = 0
  /\ SharedSlice_default_at(BaseTy("u8")).ptr # SharedSlice_default_at(BaseTy("u64")).ptr
  /\ UniqueSlice_default_at(BaseTy("u16")).ptr # UniqueSlice_default_at(BaseTy("f32")).ptr
C28_Witness ==
  /\ res.op = "default_view"
  /\ res.kind = "UniqueSlice"
  /\ Len(ty) > 1
  /\ AlignOfTy(ty) > 1
  /\ res.val.ptr = AlignOfTy(ty)

\* C29: a record type is itself StableLayout.  SharedSlice<T>,
\* UniqueSlice<T> and StableVec<T> are exactly when the compiler accepts
\* them (the build has the record, T is Sized and StableLayout); SharedStr,
\* UniqueStr and StableString are in every build that has them; and a
\* sequence record whose element type is a record is accepted exactly when
\* that element record is.
C29_RecordsAreStable ==
  LET isRec == ty # <<>> /\ Head(ty).con \in Kinds
      recOk == IF Head(ty).con \in {"SharedStr", "UniqueStr", "StableString"}
               THEN Head(ty).con \in Exports(build)
               ELSE /\ Head(ty).con \in Exports(build)
                    /\ IsSized(Tail(ty))
                    /\ StableLayout(Tail(ty), build)
  IN /\ (res.op = "resolve" /\ isRec) => (res.ok <=> recOk)
     /\ (res.op = "instantiate" /\ isRec
           /\ res.kind \in {"SharedSlice", "UniqueSlice", "StableVec"}) =>
          (res.ok <=> (res.kind \in Exports(build) /\ recOk))
C29_Witness ==
  /\ res.op = "instantiate"
  /\ res.kind = "StableVec"
  /\ res.ok
  /\ Len(ty) = 2
  /\ Head(ty).con = "UniqueSlice"
  /\ BaseOf(ty) = "SharedStr"

\* C23: the struct of every record kind starts with the address at offset
\* 0, followed by the length one pointer width on; an owning record has
\* the capacity two pointer widths on and is three pointer widths in size;
\* a view record has beside these only the lifetime marker, of size 0, and
\* is two pointer widths in size; no other field and no padding.
C23_RecordLayout ==
  res.op = "layout" =>
    LET w == res.val.width
        l == res.val.repr
        f == l.fields
    IN /\ Len(f) = 3
       /\ f[1].name = "ptr" /\ f[1].at = 0 /\ f[1].size = w
       /\ f[2].name = "len" /\ f[2].at = w /\ f[2].size = w
       /\ IF res.kind \in {"StableVec", "StableString"}
          THEN f[3].name = "cap" /\ f[3].at = 2 * w /\ f[3].size = w /\ l.size = 3 * w
          ELSE f[3].name = "life" /\ f[3].size = 0 /\ l.size = 2 * w
       /\ l.size = f[1].size + f[2].size + f[3].size
C23_Witness ==
  /\ res.op = "layout"
  /\ res.kind = "UniqueStr"
  /\ res.val.width = 4
  /\ res.val.repr.size = 8

\* C21, as stated: every call of an operation of the core completes and
\* hands back a value, whatever the fields of the record it is called on.
C21_AlwaysReturns ==
  res.op \in {"from", "into", "default", "deref", "deref_mut", "clone"} => res.ok
\* C21, amended: no operation checks or adjusts anything: a call that
\* completes hands back exactly the address, length and capacity it was
\* given.  From, default and clone complete on every input; into, deref
\* and deref_mut complete whenever the fields of the record meet the safety
\* conditions of from_raw_parts, as the fields of every record the crate
\* built do.
C21_TotalOnValidFields ==
  /\ res.op \in {"from", "default", "clone"} => res.ok
  /\ res.op \in {"into", "deref", "deref_mut"} =>
       /\ ValidFields(recs[1].kind, recs[1].val, mem, heap) => res.ok
       /\ res.ok =>
            /\ res.val.ptr = recs[1].val.ptr
            /\ res.val.len = recs[1].val.len
            /\ (res.op = "into" /\ res.kind \in {"StableVec", "StableString"}) =>
                 res.val.cap = recs[1].val.cap
  /\ \A r \in DOMAIN recs :
       recs[r].origin # "foreign" =>
         ValidFields(recs[r].kind, recs[r].val, mem, heap)
C21_Witness ==
  /\ res.op = "into"
  /\ res.ok
  /\ recs[1].origin = "foreign"
  /\ recs[1].kind = "UniqueSlice"
  /\ recs[1].val.len > NElem
  /\ ~ValidFields(recs[1].kind, recs[1].val, mem, heap)

====
